---- MODULE Spec2Model ----
(***************************************************************************)
(* PullRequestsData (src/script.py): sequential retrieval of the pull      *)
(* requests of one GitHub repository, with their commits, comments and     *)
(* requested reviewers, and the two exports (CSV file, printed report).    *)
(*                                                                         *)
(* One step of the model is one HTTP GET together with the code that runs  *)
(* after it up to, but not including, the next GET.  The wall clock may    *)
(* advance between two steps (Tick).                                       *)
(***************************************************************************)
EXTENDS Integers, Sequences, FiniteSets, TLC

\* ---------------------------------------------------------------- bounds
MaxPRs == 2          \* pull-request ids known to the upstream repository
MaxCommits == 2      \* longest commit list of a pull request
MaxComments == 2     \* longest comment list of a pull request
MaxReviewers == 2    \* longest requested_reviewers list
MaxTicks == 1        \* how many times the wall clock advances

\* ------------------------------------------------------ program constants
HTTP_OK == 200

StatusCodes == {200, 404}

ApiErrorMessage == "Error receiving a response from the API"

\* the first column name ends in the numero sign, written "No" here
columns ==
  <<"PR No", "Title", "Author", "Created At", "Updated At",
    "Time open", "Commits", "Comments", "Reviewers">>

\* the object built by the entry point
pr == [repo_owner |-> "startstopstep", repo_name |-> "test-repo"]

\* ------------------------------------------------------------ time values
\* A datetime is a number of minutes since 2022-01-01T00:00:00; a timedelta
\* is a number of minutes.
MinutesPerDay == 1440
TickMinutes == 30
FirstNow == 2160     \* 2022-01-02 12:00:00

Pad2(n) == IF n < 10 THEN "0" \o ToString(n) ELSE ToString(n)

\* the textual form "%Y-%m-%dT%H:%M:%SZ" of a datetime
strftime(dt) ==
  "2022-01-" \o Pad2((dt \div MinutesPerDay) + 1) \o "T"
             \o Pad2((dt % MinutesPerDay) \div 60) \o ":"
             \o Pad2(dt % 60) \o ":00Z"

\* the clock is read once, when the module is loaded
get_time_open_memoized(t, created_at) == FirstNow - created_at

\* now - created_at
get_time_open_at(t, created_at) == t - created_at

\* --------------------------------------------------------------- upstream
VARIABLES
  upstream,       \* what the API serves: [pulls, c, m]
  now,            \* wall clock (datetime)
  files,          \* file name -> [exists, rows]
  op,             \* the public method that was called last
  arg,            \* its argument (a url, or a datetime for get_time_open)
  pc,             \* "idle", "pulls", "list_commits", "commit", "list_comments", "done"
  log,            \* the GETs issued by the current call: [url, status]
  data,           \* list_pull_requests: decoded pull-request list
  i,              \* list_pull_requests: index of the current pull request
  time_open,      \* list_pull_requests: time open of the current pull request
  pull_requests,  \* list_pull_requests: accumulated records
  commits_data,   \* list_commits: decoded commit list
  j,              \* list_commits: index of the current commit
  commits,        \* list_commits: accumulated records
  result,         \* outcome of the current call
  out,            \* lines printed by the current call
  called_at       \* wall clock read by get_time_open, when it is the last call

lprFrame == <<data, i, time_open, pull_requests>>
lcFrame == <<commits_data, j, commits>>
vars ==
  <<upstream, now, files, op, arg, pc, log, data, i, time_open,
    pull_requests, commits_data, j, commits, result, out, called_at>>

PRIds == 1..MaxPRs

NumCommits(p) == (upstream.c + p) % (MaxCommits + 1)
NumComments(p) == (upstream.m + p) % (MaxComments + 1)
NumReviewers(p) == (upstream.m + 2 * p) % (MaxReviewers + 1)

PullsUrl(self) ==
  "https://api.github.com/repos/" \o self.repo_owner \o "/"
    \o self.repo_name \o "/pulls"

CommitsUrl(p) == "commits_url_" \o ToString(p)
CommentsUrl(p) == "comments_url_" \o ToString(p)
CommitUrl(p, k) == "commit_url_" \o ToString(p) \o "_" \o ToString(k)
CommitSha(p, k) == "commit_sha_" \o ToString(p) \o "_" \o ToString(k)
CreatedAt(p) == 600 + TickMinutes * p
UpdatedAt(p) == CreatedAt(p) + MinutesPerDay

\* the datetimes whose textual form upstream serves
Datetimes == {CreatedAt(p) : p \in 1..MaxPRs} \cup {UpdatedAt(p) : p \in 1..MaxPRs}

\* datetime.datetime.strptime(s, "%Y-%m-%dT%H:%M:%SZ"): the datetime whose
\* textual form is s
strptime(s) == CHOOSE dt \in Datetimes : strftime(dt) = s

ReviewerJson(p, k) ==
  [login |-> "reviewer" \o ToString(p) \o "_" \o ToString(k),
   id |-> 10 * p + k,
   type |-> "User",
   site_admin |-> FALSE]

PullRequestJson(p) ==
  [number |-> p,
   title |-> "Title " \o ToString(p),
   user |-> [login |-> "user" \o ToString(p)],
   created_at |-> strftime(CreatedAt(p)),
   updated_at |-> strftime(UpdatedAt(p)),
   commits_url |-> CommitsUrl(p),
   comments_url |-> CommentsUrl(p),
   requested_reviewers |-> [k \in 1..NumReviewers(p) |-> ReviewerJson(p, k)]]

PullsJson == [n \in 1..Len(upstream.pulls) |-> PullRequestJson(upstream.pulls[n])]

CommitListJson(p) ==
  [k \in 1..NumCommits(p) |-> [url |-> CommitUrl(p, k), sha |-> CommitSha(p, k)]]

CommitJson(p, k) ==
  [commit |->
    [message |-> "commit message " \o ToString(p) \o "_" \o ToString(k),
     committer |-> [name |-> "committer " \o ToString(k)]]]

CommentsJson(p) ==
  [k \in 1..NumComments(p) |->
    [user |-> [login |-> "test_user_" \o ToString(k)],
     body |-> "Test comment " \o ToString(p) \o "_" \o ToString(k)]]

CommitPairs == {<<p, k>> \in PRIds \X (1..MaxCommits) : k <= NumCommits(p)}

Served(url) ==
  \/ url = PullsUrl([repo_owner |-> "startstopstep", repo_name |-> "test-repo"])
  \/ \E p \in PRIds : url = CommitsUrl(p) \/ url = CommentsUrl(p)
  \/ \E pk \in CommitPairs : url = CommitUrl(pk[1], pk[2])

\* response.json() of a served url
Json(url) ==
  IF url = PullsUrl([repo_owner |-> "startstopstep", repo_name |-> "test-repo"])
  THEN PullsJson
  ELSE IF \E p \in PRIds : url = CommitsUrl(p)
  THEN CommitListJson(CHOOSE p \in PRIds : url = CommitsUrl(p))
  ELSE IF \E p \in PRIds : url = CommentsUrl(p)
  THEN CommentsJson(CHOOSE p \in PRIds : url = CommentsUrl(p))
  ELSE LET pk == CHOOSE q \in CommitPairs : url = CommitUrl(q[1], q[2])
       IN CommitJson(pk[1], pk[2])

\* response.status_code: a served url may still fail; an unknown one always does
Statuses(url) == IF Served(url) THEN StatusCodes ELSE StatusCodes \ {HTTP_OK}

\* ------------------------------------------------------------ make_request
\* the status check is missing: the body is decoded whatever the status
make_request_unchecked(url, status) ==
  IF Served(url) THEN [raised |-> FALSE, json |-> Json(url)]
  ELSE [raised |-> TRUE, json |-> <<>>]

make_request(url, status) ==
  IF status # HTTP_OK THEN [raised |-> TRUE, json |-> <<>>]
  ELSE [raised |-> FALSE, json |-> Json(url)]

\* outcomes of a call
Running == [kind |-> "running", value |-> "None"]
Returned(v) == [kind |-> "return", value |-> v]
Raised == [kind |-> "raise", exc |-> "ApiError", value |-> ApiErrorMessage]

\* ----------------------------------------------------- record construction
pull_requests_prepend(list, record) == <<record>> \o list

pull_requests_append(list, record) == Append(list, record)

commits_prepend(list, record) == <<record>> \o list

commits_append(list, record) == Append(list, record)

comments_prepend(list, record) == <<record>> \o list

comments_append(list, record) == Append(list, record)

pull_request_review_requests(pull_request) ==
  [k \in 1..Len(pull_request.requested_reviewers) |->
    [login |-> pull_request.requested_reviewers[k].login,
     id |-> pull_request.requested_reviewers[k].id,
     type |-> pull_request.requested_reviewers[k].type]]

pull_request_record(pull_request, t_open, cs, cms) ==
  <<pull_request.number,
    pull_request.title,
    pull_request.user.login,
    pull_request.created_at,
    pull_request.updated_at,
    t_open,
    cs,
    cms,
    pull_request_review_requests(pull_request)>>

commit_record(commit, commit_data) ==
  <<commit.sha, commit_data.commit.message, commit_data.commit.committer.name>>

comment_record(comment) == <<comment.user.login, comment.body>>

RECURSIVE comments_loop(_, _, _)
comments_loop(d, k, acc) ==
  IF k > Len(d) THEN acc
  ELSE comments_loop(d, k + 1, comments_append(acc, comment_record(d[k])))

\* ------------------------------------------------------------------ export
csv_name(self) == self.repo_name \o "_" \o self.repo_owner \o ".csv"

OtherName == "startstopstep_test-repo.csv"
FileNames == {csv_name(pr), OtherName}
NoFile == [exists |-> FALSE, rows |-> <<>>]
OldFile == [exists |-> TRUE, rows |-> <<<<"old header">>, <<"old row">>, <<"old row">>, <<"old row">>, <<"old row">>>>]

DataFrame(records, cols) == [columns |-> cols, rows |-> records]

\* one line of the file per row, every cell as text
csv_row(record) ==
  <<ToString(record[1]), record[2], record[3], record[4], record[5],
    ToString(record[6]), ToString(record[7]), ToString(record[8]),
    ToString(record[9])>>

to_csv(df) == <<df.columns>> \o [k \in 1..Len(df.rows) |-> csv_row(df.rows[k])]

write_file_append(fs, name, rows) ==
  [fs EXCEPT ![name] = [exists |-> TRUE, rows |-> @.rows \o rows]]

write_file(fs, name, rows) ==
  [fs EXCEPT ![name] = [exists |-> TRUE, rows |-> rows]]

\* ------------------------------------------------------------------ report
RECURSIVE Flatten(_)
Flatten(ss) == IF ss = <<>> THEN <<>> ELSE Head(ss) \o Flatten(Tail(ss))

\* print(label, value): the two arguments separated by one space
print2(label, text) == label \o " " \o text

Separator ==
  "********************" \o "********************"
    \o "********************" \o "********************"

\* iterating a dict yields its keys, in insertion order
iter_dict(d) == <<"login", "id", "type">>

print_commit(c) ==
  <<print2("\tSHA: ", c[1]), print2("\tMessage: ", c[2]),
    print2("\tCommitter: ", c[3])>>

print_comment(c) == <<print2("\tAuthor: ", c[1]), print2("\tBody: ", c[2])>>

\* for login, id, type in review_requests: each element is unpacked by
\* iteration, and the element is a dict
print_review_request(review) ==
  LET unpacked == iter_dict(review) IN
  <<print2("\tLogin: ", unpacked[1]), print2("\tId: ", unpacked[2]),
    print2("\tType: ", unpacked[3])>>

print_pull_request(record) ==
  <<print2("Number: ", ToString(record[1])),
    print2("Title: ", record[2]),
    print2("User: ", record[3]),
    print2("Created at: ", record[4]),
    print2("Updated at: ", record[5]),
    print2("Time open: ", ToString(record[6])),
    "Commits: ">>
  \o Flatten([k \in 1..Len(record[7]) |-> print_commit(record[7][k])])
  \o <<"Comments: ">>
  \o Flatten([k \in 1..Len(record[8]) |-> print_comment(record[8][k])])
  \o <<"Review requests: ">>
  \o Flatten([k \in 1..Len(record[9]) |-> print_review_request(record[9][k])])
  \o <<Separator>>

print_all(records) ==
  Flatten([k \in 1..Len(records) |-> print_pull_request(records[k])])

\* ------------------------------------------------------------------- Init
RECURSIVE DistinctSeqs(_, _)
\* the sequences of at most n distinct elements of S
DistinctSeqs(S, n) ==
  IF n = 0 THEN {<<>>}
  ELSE {<<>>} \cup {<<x>> \o t : <<x, t>> \in
          {y \in S \X DistinctSeqs(S, n - 1) :
             \A k \in 1..Len(y[2]) : y[2][k] # y[1]}}

Upstreams ==
  [pulls : DistinctSeqs(PRIds, MaxPRs),
   c : 0..MaxCommits, m : 0..MaxComments]

MissingUrl == "https://api.github.com/missing"
CommitsUrlInputs == {CommitsUrl(p) : p \in PRIds} \cup {MissingUrl}
CommentsUrlInputs == {CommentsUrl(p) : p \in PRIds} \cup {MissingUrl}
CreatedAtInputs == {690, CreatedAt(1)}

Init ==
  /\ upstream \in Upstreams
  /\ now = FirstNow
  /\ files \in {[n \in FileNames |-> IF n = csv_name(pr) THEN f ELSE NoFile] :
                  f \in {NoFile, OldFile}}
  /\ op = "none"
  /\ arg = ""
  /\ pc = "idle"
  /\ log = <<>>
  /\ data = <<>>
  /\ i = 0
  /\ time_open = 0
  /\ pull_requests = <<>>
  /\ commits_data = <<>>
  /\ j = 0
  /\ commits = <<>>
  /\ result = Running
  /\ out = <<>>
  /\ called_at = 0

\* ---------------------------------------------------------------- actions
\* the wall clock advances
Tick ==
  /\ now < FirstNow + MaxTicks * TickMinutes
  /\ now' = now + TickMinutes
  /\ UNCHANGED <<upstream, files, op, arg, pc, log, lprFrame, lcFrame, result,
                 out, called_at>>

\* a public method is entered: fresh locals, nothing fetched yet
Call(o, a, first) ==
  /\ pc \in {"idle", "done"}
  /\ op' = o
  /\ arg' = a
  /\ pc' = first
  /\ log' = <<>>
  /\ data' = <<>>
  /\ i' = 0
  /\ time_open' = 0
  /\ pull_requests' = <<>>
  /\ commits_data' = <<>>
  /\ j' = 0
  /\ commits' = <<>>
  /\ result' = Running
  /\ out' = <<>>
  /\ called_at' = 0
  /\ UNCHANGED <<upstream, now>>

list_pull_requests ==
  Call("list_pull_requests", "", "pulls") /\ UNCHANGED files

\* the export file is opened for writing before anything is fetched
save_pull_requests_csv_open_first ==
  /\ Call("save_pull_requests_csv", "", "pulls")
  /\ files' = write_file(files, csv_name(pr), <<>>)

save_pull_requests_csv ==
  Call("save_pull_requests_csv", "", "pulls") /\ UNCHANGED files

print_pull_requests ==
  Call("print_pull_requests", "", "pulls") /\ UNCHANGED files

list_commits ==
  \E url \in CommitsUrlInputs :
    Call("list_commits", url, "list_commits") /\ UNCHANGED files

list_comments ==
  \E url \in CommentsUrlInputs :
    Call("list_comments", url, "list_comments") /\ UNCHANGED files

get_time_open ==
  \E created_at \in CreatedAtInputs :
    /\ pc \in {"idle", "done"}
    /\ op' = "get_time_open"
    /\ arg' = created_at
    /\ called_at' = now
    /\ result' = Returned(get_time_open_at(now, created_at))
    /\ pc' = "done"
    /\ log' = <<>>
    /\ out' = <<>>
    /\ data' = <<>>
    /\ i' = 0
    /\ time_open' = 0
    /\ pull_requests' = <<>>
    /\ commits_data' = <<>>
    /\ j' = 0
    /\ commits' = <<>>
    /\ UNCHANGED <<upstream, now, files>>

\* requests.get(url) is issued and answered with status
Get(url, status) == log' = Append(log, [url |-> url, status |-> status])

\* ApiError leaves make_request and every caller up to the public method
Raise ==
  /\ pc' = "done"
  /\ result' = Raised
  /\ UNCHANGED <<files, out>>

\* the public method op returns; value is what list_pull_requests,
\* list_commits or list_comments computed
Complete(value) ==
  /\ pc' = "done"
  /\ IF op = "save_pull_requests_csv"
     THEN /\ files' = write_file(files, csv_name(pr),
                                 to_csv(DataFrame(value, columns)))
          /\ out' = out
          /\ result' = Returned("None")
     ELSE IF op = "print_pull_requests"
     THEN /\ out' = out \o print_all(value)
          /\ files' = files
          /\ result' = Returned("None")
     ELSE /\ result' = Returned(value)
          /\ UNCHANGED <<files, out>>

\* the loop of list_pull_requests reaches pull request d[n]: everything up to
\* the call of list_commits
BeginPullRequest(d, n) ==
  /\ i' = n
  /\ time_open' = get_time_open_at(now, strptime(d[n].created_at))
  /\ pc' = "list_commits"
  /\ UNCHANGED <<files, out, result>>

\* list_pull_requests: the GET of the pull-request list
GetPulls ==
  /\ pc = "pulls"
  /\ \E status \in Statuses(PullsUrl(pr)) :
       LET url == PullsUrl(pr)
           response == make_request(url, status)
       IN /\ Get(url, status)
          /\ IF response.raised
             THEN Raise /\ UNCHANGED lprFrame
             ELSE /\ data' = response.json
                  /\ pull_requests' = <<>>
                  /\ IF Len(response.json) = 0
                     THEN Complete(<<>>) /\ UNCHANGED <<i, time_open>>
                     ELSE BeginPullRequest(response.json, 1)
  /\ UNCHANGED <<upstream, now, op, arg, lcFrame, called_at>>

\* list_commits returns cs to its caller
ReturnCommits(cs) ==
  IF op = "list_commits"
  THEN Complete(cs)
  ELSE pc' = "list_comments" /\ UNCHANGED <<files, out, result>>

\* the two urls of a pull request taken for each other
commits_url_swapped(pull_request) == pull_request.comments_url

commits_url_of(pull_request) == pull_request.commits_url

comments_url_of(pull_request) == pull_request.comments_url

\* list_commits: the GET of the commit list
GetCommitList ==
  /\ pc = "list_commits"
  /\ LET url == IF op = "list_commits" THEN arg ELSE commits_url_of(data[i]) IN
     \E status \in Statuses(url) :
       LET response == make_request(url, status)
       IN /\ Get(url, status)
          /\ IF response.raised
             THEN Raise /\ UNCHANGED lcFrame
             ELSE /\ commits_data' = response.json
                  /\ commits' = <<>>
                  /\ IF Len(response.json) = 0
                     THEN ReturnCommits(<<>>) /\ j' = 0
                     ELSE /\ j' = 1
                          /\ pc' = "commit"
                          /\ UNCHANGED <<files, out, result>>
  /\ UNCHANGED <<upstream, now, op, arg, lprFrame, called_at>>

\* list_commits: the GET of one commit's own url
GetCommit ==
  /\ pc = "commit"
  /\ LET commit == commits_data[j]
         url == commit.url
     IN \E status \in Statuses(url) :
       LET response == make_request(url, status)
       IN /\ Get(url, status)
          /\ IF response.raised
             THEN Raise /\ UNCHANGED lcFrame
             ELSE LET cs == commits_append(commits, commit_record(commit, response.json))
                  IN /\ commits' = cs
                     /\ commits_data' = commits_data
                     /\ IF j = Len(commits_data)
                        THEN ReturnCommits(cs) /\ j' = j
                        ELSE /\ j' = j + 1
                             /\ pc' = "commit"
                             /\ UNCHANGED <<files, out, result>>
  /\ UNCHANGED <<upstream, now, op, arg, lprFrame, called_at>>

\* list_comments: its single GET; inside list_pull_requests the record of the
\* current pull request is then appended and the loop goes on
GetComments ==
  /\ pc = "list_comments"
  /\ LET url == IF op = "list_comments" THEN arg ELSE comments_url_of(data[i]) IN
     \E status \in Statuses(url) :
       LET response == make_request(url, status)
       IN /\ Get(url, status)
          /\ IF response.raised
             THEN Raise /\ UNCHANGED lprFrame
             ELSE LET comments == comments_loop(response.json, 1, <<>>) IN
                  IF op = "list_comments"
                  THEN Complete(comments) /\ UNCHANGED lprFrame
                  ELSE LET prs == pull_requests_append(pull_requests,
                                    pull_request_record(data[i], time_open,
                                                        commits, comments))
                       IN /\ pull_requests' = prs
                          /\ data' = data
                          /\ IF i = Len(data)
                             THEN Complete(prs) /\ UNCHANGED <<i, time_open>>
                             ELSE BeginPullRequest(data, i + 1)
  /\ UNCHANGED <<upstream, now, op, arg, lcFrame, called_at>>

Next ==
  \/ Tick
  \/ list_pull_requests
  \/ save_pull_requests_csv
  \/ print_pull_requests
  \/ list_commits
  \/ list_comments
  \/ get_time_open
  \/ GetPulls
  \/ GetCommitList
  \/ GetCommit
  \/ GetComments

Spec == Init /\ [][Next]_vars

\* ------------------------------------------------- what upstream holds
\* the values a correct retrieval of pull request p yields, read off upstream
ExpectedCommits(p) ==
  [k \in 1..NumCommits(p) |->
    <<CommitSha(p, k),
      "commit message " \o ToString(p) \o "_" \o ToString(k),
      "committer " \o ToString(k)>>]

ExpectedComments(p) ==
  [k \in 1..NumComments(p) |->
    <<"test_user_" \o ToString(k),
      "Test comment " \o ToString(p) \o "_" \o ToString(k)>>]

ExpectedReviewers(p) ==
  [k \in 1..NumReviewers(p) |->
    [login |-> "reviewer" \o ToString(p) \o "_" \o ToString(k),
     id |-> 10 * p + k,
     type |-> "User"]]

\* the fetches of one pull request, in order
ExpectedFetchesOf(p) ==
  <<CommitsUrl(p)>> \o [k \in 1..NumCommits(p) |-> CommitUrl(p, k)]
    \o <<CommentsUrl(p)>>

ExpectedFetches ==
  <<"https://api.github.com/repos/startstopstep/test-repo/pulls">>
    \o Flatten([n \in 1..Len(upstream.pulls) |->
                  ExpectedFetchesOf(upstream.pulls[n])])

RECURSIVE SumCommits(_)
SumCommits(n) ==
  IF n = 0 THEN 0 ELSE (2 + NumCommits(upstream.pulls[n])) + SumCommits(n - 1)

ClockValues == {FirstNow + TickMinutes * k : k \in 0..MaxTicks}

Succeeded == pc = "done" /\ result.kind = "return"
Failed == pc = "done" /\ result.kind = "raise"
AllOk == \A k \in 1..Len(log) : log[k].status = 200
Aggregating ==
  op \in {"list_pull_requests", "save_pull_requests_csv", "print_pull_requests"}

\* --------------------------------------------------------------- claims
\* C1: when every fetch succeeds, list_pull_requests() returns exactly one
\* record per upstream pull-request object, the n-th record built from the
\* n-th upstream object, each with the nine fields number, title, author
\* login, created_at, updated_at, time open, commits, comments, reviewers;
\* for an empty upstream list it returns the empty sequence.
C1_OneRecordPerPullRequest ==
  (op = "list_pull_requests" /\ Succeeded) =>
    /\ Len(result.value) = Len(upstream.pulls)
    /\ \A n \in 1..Len(upstream.pulls) :
         LET p == upstream.pulls[n]
             r == result.value[n]
         IN /\ Len(r) = 9
            /\ r[1] = p
            /\ r[2] = "Title " \o ToString(p)
            /\ r[3] = "user" \o ToString(p)
            /\ r[4] = strftime(CreatedAt(p))
            /\ r[5] = strftime(UpdatedAt(p))
            /\ \E t \in ClockValues : t <= now /\ r[6] = t - CreatedAt(p)
            /\ r[7] = ExpectedCommits(p)
            /\ r[8] = ExpectedComments(p)
            /\ r[9] = ExpectedReviewers(p)

C1_Witness ==
  /\ op = "list_pull_requests" /\ Succeeded
  /\ Len(result.value) = 2
  /\ result.value[1][1] = 2
  /\ Len(result.value[1][7]) = 2
  /\ Len(result.value[2][8]) >= 1
  /\ Len(result.value[2][9]) >= 1

\* C2: if any GET issued during list_pull_requests() returns a status other
\* than 200, the call ends with ApiError and returns no records, whatever
\* had been assembled before the failing fetch.
C2_FailureReturnsNoRecords ==
  (op = "list_pull_requests" /\ ~AllOk) =>
    /\ pc = "done"
    /\ result.kind = "raise"
    /\ result.exc = "ApiError"
    /\ result.value = "Error receiving a response from the API"

C2_Witness ==
  /\ op = "list_pull_requests" /\ Failed
  /\ Len(pull_requests) >= 1
  /\ Len(commits) >= 1
  /\ pc = "done"

\* C3: when every fetch succeeds, list_commits(url) on a commit list of n
\* entries issues exactly 1 + n fetches, the list first and then each entry's
\* own url in list order, and returns the n (sha, message, committer name)
\* records in list order; for n = 0 that is one fetch and the empty sequence.
C3_ListCommits ==
  (op = "list_commits" /\ Succeeded) =>
    \E p \in PRIds :
      /\ arg = CommitsUrl(p)
      /\ AllOk
      /\ Len(log) = 1 + NumCommits(p)
      /\ log[1].url = arg
      /\ \A k \in 1..NumCommits(p) : log[k + 1].url = CommitUrl(p, k)
      /\ result.value = ExpectedCommits(p)

C3_Witness ==
  /\ op = "list_commits" /\ Succeeded
  /\ Len(result.value) = 2
  /\ Len(log) = 3

\* C4: list_comments(url) issues exactly one fetch, on url, and returns one
\* (author login, body) pair per entry of the response, in the received
\* order; an empty response gives the empty sequence.
C4_ListComments ==
  (op = "list_comments" /\ pc = "done") =>
    /\ Len(log) = 1
    /\ log[1].url = arg
    /\ result.kind = "return" =>
         \E p \in PRIds :
           arg = CommentsUrl(p) /\ result.value = ExpectedComments(p)

C4_Witness ==
  /\ op = "list_comments" /\ Succeeded
  /\ Len(result.value) = 2

\* C5: after save_pull_requests_csv() completes with n records retrieved, the
\* file {repo_name}_{repo_owner}.csv holds the header row of the nine column
\* names followed by exactly n data rows, one per record in record order,
\* whatever the file held before; no other file is written.
C5_CsvFile ==
  (op = "save_pull_requests_csv" /\ Succeeded) =>
    LET f == files["test-repo_startstopstep.csv"] IN
    /\ f.exists
    /\ Len(pull_requests) = Len(upstream.pulls)
    /\ Len(f.rows) = 1 + Len(pull_requests)
    /\ f.rows[1] = <<"PR No", "Title", "Author", "Created At", "Updated At",
                     "Time open", "Commits", "Comments", "Reviewers">>
    /\ \A n \in 1..Len(pull_requests) :
         /\ Len(f.rows[n + 1]) = 9
         /\ f.rows[n + 1][1] = ToString(upstream.pulls[n])
         /\ f.rows[n + 1][2] = pull_requests[n][2]
         /\ f.rows[n + 1][3] = pull_requests[n][3]
         /\ f.rows[n + 1][4] = pull_requests[n][4]
         /\ f.rows[n + 1][5] = pull_requests[n][5]
         /\ f.rows[n + 1][6] = ToString(pull_requests[n][6])
         /\ pull_requests[n][7] = ExpectedCommits(upstream.pulls[n])
         /\ pull_requests[n][8] = ExpectedComments(upstream.pulls[n])
         /\ pull_requests[n][9] = ExpectedReviewers(upstream.pulls[n])
         /\ f.rows[n + 1][7] = ToString(pull_requests[n][7])
         /\ f.rows[n + 1][8] = ToString(pull_requests[n][8])
         /\ f.rows[n + 1][9] = ToString(pull_requests[n][9])
    /\ files[OtherName] = NoFile

C5_Witness ==
  /\ op = "save_pull_requests_csv" /\ Succeeded
  /\ Len(files["test-repo_startstopstep.csv"].rows) = 3
  /\ files["test-repo_startstopstep.csv"].rows[2][1] = "2"

\* the report a record's reviewers call for: login, id and type VALUES
ReviewerLines(p) ==
  Flatten([k \in 1..NumReviewers(p) |->
    <<"\tLogin:  " \o ExpectedReviewers(p)[k].login,
      "\tId:  " \o ToString(ExpectedReviewers(p)[k].id),
      "\tType:  " \o ExpectedReviewers(p)[k].type>>])

\* the lines of out from the n-th "Review requests: " up to the separator
RECURSIVE IndexOfNth(_, _, _, _)
IndexOfNth(seq, x, n, from) ==
  IF from > Len(seq) THEN 0
  ELSE IF seq[from] = x
       THEN IF n = 1 THEN from ELSE IndexOfNth(seq, x, n - 1, from + 1)
       ELSE IndexOfNth(seq, x, n, from + 1)

PrintedReviewers(n) ==
  LET a == IndexOfNth(out, "Review requests: ", n, 1)
      b == IndexOfNth(out, Separator, n, 1)
  IN SubSeq(out, a + 1, b - 1)

\* C6: print_pull_requests() prints, for each requested reviewer of each
\* record, the reviewer's login, id and type values as taken from the
\* upstream pull-request object, in upstream order, after the commits and
\* comments and before the separator line.
C6_ReviewersPrinted ==
  (op = "print_pull_requests" /\ Succeeded) =>
    \A n \in 1..Len(upstream.pulls) :
      PrintedReviewers(n) = ReviewerLines(upstream.pulls[n])

\* C7: get_time_open(created_at) called when the wall clock reads T returns
\* exactly T - created_at, evaluated anew on each call.
C7_TimeOpen ==
  (op = "get_time_open" /\ pc = "done") =>
    /\ result.kind = "return"
    /\ result.value = called_at - arg

C7_Witness ==
  /\ op = "get_time_open" /\ pc = "done"
  /\ arg = 690
  /\ called_at = FirstNow + TickMinutes
  /\ result.value = (FirstNow + TickMinutes) - 690

\* C8: save_pull_requests_csv() writes the export file only in the step that
\* returns successfully: entering the call, every fetch on the way and a
\* failing fetch all leave every file exactly as it was.
C8_NoWriteBeforeSuccess ==
  [][(op' = "save_pull_requests_csv" /\ ~(pc' = "done" /\ result'.kind = "return"))
       => files' = files]_vars

C8_Witness ==
  /\ op = "save_pull_requests_csv" /\ Failed
  /\ Len(pull_requests) >= 1
  /\ Len(log) >= 4
  /\ ~files["test-repo_startstopstep.csv"].exists

\* C9: while every fetch succeeds, list_pull_requests() issues its GETs in
\* this order: the pull-request list; then per pull request in upstream
\* order its commit list, each commit's own url in list order, its comment
\* list; nothing for reviewers; 1 + sum of (2 + commits) fetches in all.
C9_FetchOrder ==
  Aggregating =>
    /\ Len(log) <= Len(ExpectedFetches)
    /\ \A k \in 1..Len(log) : log[k].url = ExpectedFetches[k]
    /\ Succeeded =>
         /\ AllOk
         /\ Len(log) = 1 + SumCommits(Len(upstream.pulls))

C9_Witness ==
  /\ op = "list_pull_requests" /\ Succeeded
  /\ Len(upstream.pulls) = 2
  /\ Len(log) = 8

\* C10: within one call of list_pull_requests(), list_commits() or
\* list_comments(), a GET answered with a status other than 200 is the last
\* GET of the call: the call has ended, and nothing was fetched after it.
C10_NoFetchAfterFailure ==
  op \in {"list_pull_requests", "list_commits", "list_comments"} =>
    \A k \in 1..Len(log) :
      log[k].status # 200 => (k = Len(log) /\ Failed)

C10_Witness ==
  /\ op = "list_commits" /\ Failed
  /\ Len(commits_data) = 2
  /\ Len(log) = 2
  /\ log[2].status = 404

====
